---- MODULE Spec2Model ----
(***************************************************************************)
(* The fully connected layer of src/operator/static_operator/              *)
(* fully_connect_op-inl.h: the operator FullyConnectOp (Forward, Backward) *)
(* and its symbol FullyConnectSymbol (ListArguments, InferShape,           *)
(* DeclareBackwardDependency, BackwardInplaceOption).                      *)
(*                                                                         *)
(* Conventions.  C++ vectors are sequences, so a C++ index i is i + 1      *)
(* here (kData = 0 in the source is kData == 1).  A TShape is the sequence *)
(* of its extents and the unknown shape is << >> (ndim() == 0).  A TBlob   *)
(* is a pointer and a shape, [dptr, shape]; the memory mem maps a pointer  *)
(* to the flat, row-major contents it points at, so two blobs with the     *)
(* same dptr alias.  real_t values are small integers, on which float      *)
(* arithmetic is exact.  A failed CHECK (LOG(FATAL)) ends the call: the    *)
(* call's result is "fail" and whatever it wrote before stays written.     *)
(***************************************************************************)
EXTENDS Integers, Sequences, FiniteSets, TLC

VARIABLES
  param_,     \* Param param_: [num_hidden, no_bias], of the symbol and the operator bound from it
  in_shape,   \* std::vector<TShape> *in_shape of InferShape
  out_shape,  \* std::vector<TShape> *out_shape of InferShape
  mem,        \* the device memory behind the TBlobs: dptr -> flat contents
  in_data,    \* std::vector<TBlob> in_data of Forward and Backward
  out_data,   \* std::vector<TBlob> out_data
  out_grad,   \* std::vector<TBlob> out_grad
  in_grad,    \* std::vector<TBlob> in_grad
  req,        \* std::vector<OpReqType> req
  args,       \* what the last ListArguments returned
  op,         \* the last operation called
  ret,        \* how it ended: "true" (InferShape), "ok", "fail" (a CHECK failed), "none"
  pre,        \* in_shape, out_shape, mem, op and ret as they were when the last operation was called
  calls       \* number of Forward and Backward calls so far

vars == <<param_, in_shape, out_shape, mem, in_data, out_data, out_grad, in_grad,
          req, args, op, ret, pre, calls>>

---------------------------------------------------------------------------
(* Bounds of the model *)

MaxExtent == 2   \* InferShape: shape extents are 0..MaxExtent, num_hidden is -1..MaxExtent
MaxBatch == 2    \* Forward/Backward: batch sizes 1..MaxBatch
MaxFeat == 2     \* Forward/Backward: input features 1..MaxFeat
MaxHidden == 2   \* Forward/Backward: hidden units 1..MaxHidden
MaxSeed == 1     \* buffer contents are drawn from the families Fill(.., seed), seed in 0..MaxSeed
MaxCalls == 2    \* Forward and Backward are called at most MaxCalls times in a behaviour

---------------------------------------------------------------------------
(* enum FullyConnectOpInputs {kData, kWeight, kBias}; enum FullyConnectOpOutputs {kOut} *)

kData == 1
kWeight == 2
kBias == 3
kOut == 1

(* OpReqType *)
kWriteTo == "kWriteTo"
kWriteInplace == "kWriteInplace"
kAddTo == "kAddTo"
OpReqType == {kWriteTo, kWriteInplace, kAddTo}

---------------------------------------------------------------------------
(* Arithmetic helpers *)

RECURSIVE SumTo(_, _)
SumTo(f, n) == IF n = 0 THEN 0 ELSE f[n] + SumTo(f, n - 1)

RECURSIVE ProdFrom(_, _)
ProdFrom(s, i) == IF i > Len(s) THEN 1 ELSE s[i] * ProdFrom(s, i + 1)

---------------------------------------------------------------------------
(* mshadow tensors: a view [dptr, rows, cols] of a blob, read from and     *)
(* written to the memory m.  A matrix value is a sequence of rows.         *)

FlatTo2D(blob) ==
  [dptr |-> blob.dptr, rows |-> blob.shape[1], cols |-> ProdFrom(blob.shape, 2)]

get2(blob) == [dptr |-> blob.dptr, rows |-> blob.shape[1], cols |-> blob.shape[2]]

get1(blob) == [dptr |-> blob.dptr, rows |-> 1, cols |-> blob.shape[1]]

Mat(m, t) == [i \in 1..t.rows |-> [j \in 1..t.cols |-> m[t.dptr][(i - 1) * t.cols + j]]]

Vec(m, t) == [j \in 1..t.cols |-> m[t.dptr][j]]

Flat(A, rows, cols) == [k \in 1..(rows * cols) |-> A[((k - 1) \div cols) + 1][((k - 1) % cols) + 1]]

NCols(A) == IF Len(A) = 0 THEN 0 ELSE Len(A[1])

T(A) == [j \in 1..NCols(A) |-> [i \in 1..Len(A) |-> A[i][j]]]

dot(A, B) ==
  [i \in 1..Len(A) |-> [j \in 1..NCols(B) |->
      SumTo([k \in 1..Len(B) |-> A[i][k] * B[k][j]], Len(B))]]

repmat(v, n) == [i \in 1..n |-> v]

sum_rows(A) == [j \in 1..NCols(A) |-> SumTo([i \in 1..Len(A) |-> A[i][j]], Len(A))]

AsRow(v) == <<v>>

\* out = exp
Store(m, t, A) == [m EXCEPT ![t.dptr] = Flat(A, t.rows, t.cols)]

\* out += exp
AddInto(m, t, A) ==
  [m EXCEPT ![t.dptr] = [k \in 1..(t.rows * t.cols) |-> m[t.dptr][k] + Flat(A, t.rows, t.cols)[k]]]

\* Assign(out, req, exp) of static_operator_common.h
Assign(m, t, r, A) ==
  CASE r = kWriteTo -> Store(m, t, A)
    [] r = kWriteInplace -> Store(m, t, A)
    [] r = kAddTo -> AddInto(m, t, A)

---------------------------------------------------------------------------
(* FullyConnectSymbol *)

\* size_t expected = param_.no_bias == 0 ? 3 : 2
Expected(p) == IF p.no_bias = 0 THEN 3 ELSE 2

\* Mutant: "bias" is listed whatever no_bias is
ListArguments_AlwaysBias(p) == <<"data", "weight", "bias">>

ListArguments(p) ==
  IF p.no_bias = 0 THEN <<"data", "weight", "bias">> ELSE <<"data", "weight">>

\* ShapeAssignCheck(out, shape): fill an unknown slot, else verify equality
ShapeAssignCheck(out, shape) ==
  IF Len(out) = 0 THEN [ok |-> TRUE, shape |-> shape]
  ELSE [ok |-> out = shape, shape |-> out]

\* Mutant: CHECK_GE in place of CHECK_EQ on the rank
DataShapeAccepted_AtLeast4(dshape) == Len(dshape) >= 4 /\ Len(dshape) # 0

\* CHECK_EQ(dshape.ndim(), 4); CHECK_NE(dshape.ndim(), 0)
DataShapeAccepted(dshape) == Len(dshape) = 4 /\ Len(dshape) # 0

\* Mutant: the two extents of the weight shape swapped
WeightShape_Swapped(p, dshape) == <<dshape[4], p.num_hidden>>

\* Shape2(param_.num_hidden, dshape[3])
WeightShape(p, dshape) == <<p.num_hidden, dshape[4]>>

\* Shape1(param_.num_hidden)
BiasShape(p) == <<p.num_hidden>>

\* Mutant: out_shape is not cleared before the push_back
PushOutput_NoClear(p, ins, outs) ==
  [in_shape |-> ins, out_shape |-> Append(outs, [ins[kData] EXCEPT ![4] = p.num_hidden])]

\* Mutant: the last extent is set through the reference dshape, in in_shape itself
PushOutput_ThroughReference(p, ins, outs) ==
  [in_shape |-> [ins EXCEPT ![kData][4] = p.num_hidden],
   out_shape |-> <<[ins[kData] EXCEPT ![4] = p.num_hidden]>>]

\* out_shape->clear(); out_shape->push_back(dshape); (*out_shape)[0][3] = param_.num_hidden
PushOutput(p, ins, outs) ==
  [in_shape |-> ins, out_shape |-> <<[ins[kData] EXCEPT ![4] = p.num_hidden]>>]

Thrown(ins, outs) == [ret |-> "fail", in_shape |-> ins, out_shape |-> outs]

InferShapeResult(p, ins, outs) ==
  IF Len(ins) # Expected(p) THEN Thrown(ins, outs)
  ELSE IF ~(p.num_hidden > 0) THEN Thrown(ins, outs)
  ELSE IF ~DataShapeAccepted(ins[kData]) THEN Thrown(ins, outs)
  ELSE
    LET w == ShapeAssignCheck(ins[kWeight], WeightShape(p, ins[kData]))
        ins1 == [ins EXCEPT ![kWeight] = w.shape]
    IN IF ~w.ok THEN Thrown(ins, outs)
       ELSE
         LET b == IF p.no_bias = 0
                  THEN ShapeAssignCheck(ins1[kBias], BiasShape(p))
                  ELSE [ok |-> TRUE, shape |-> << >>]
             ins2 == IF p.no_bias = 0 THEN [ins1 EXCEPT ![kBias] = b.shape] ELSE ins1
         IN IF ~b.ok THEN Thrown(ins1, outs)
            ELSE [ret |-> "true"] @@ PushOutput(p, ins2, outs)

\* return {out_grad[kOut], in_data[kData], in_data[kWeight]}
DeclareBackwardDependency(og, ind, outd) == <<og[kOut], ind[kData], ind[kWeight]>>

\* return {{in_grad[kData], in_data[kData]}}
BackwardInplaceOption(og, ind, outd, ing) == <<(<<ing[kData], ind[kData]>>)>>

---------------------------------------------------------------------------
(* FullyConnectOp *)

\* req[kOut]: Forward reads it before any size check, so with an empty req the
\* read is out of bounds and yields an arbitrary value, wild
ReqAt(rq, i, wild) == IF i <= Len(rq) THEN rq[i] ELSE wild

\* CHECK_EQ(req[kOut], kWriteTo); CHECK_EQ(in_data.size(), expected); CHECK_EQ(out_data.size(), 1)
ForwardChecks(p, ind, rq, outd, wild) ==
  /\ ReqAt(rq, kOut, wild) = kWriteTo
  /\ Len(ind) = Expected(p)
  /\ Len(outd) = 1

\* Mutant: the product is added to the output, out += dot(data, wmat.T())
ForwardBody_AddsProduct(p, m, ind, outd) ==
  LET data == FlatTo2D(ind[kData])
      wmat == get2(ind[kWeight])
      out == FlatTo2D(outd[kOut])
      m1 == AddInto(m, out, dot(Mat(m, data), T(Mat(m, wmat))))
  IN IF p.no_bias = 0
     THEN AddInto(m1, out, repmat(Vec(m1, get1(ind[kBias])), data.rows))
     ELSE m1

\* out = dot(data, wmat.T()); if (no_bias == 0) out += repmat(bias, data.size(0))
ForwardBody(p, m, ind, outd) ==
  LET data == FlatTo2D(ind[kData])
      wmat == get2(ind[kWeight])
      out == FlatTo2D(outd[kOut])
      m1 == Store(m, out, dot(Mat(m, data), T(Mat(m, wmat))))
  IN IF p.no_bias = 0
     THEN AddInto(m1, out, repmat(Vec(m1, get1(ind[kBias])), data.rows))
     ELSE m1

ForwardResult(p, m, ind, rq, outd, wild) ==
  IF ForwardChecks(p, ind, rq, outd, wild)
  THEN [ret |-> "ok", mem |-> ForwardBody(p, m, ind, outd)]
  ELSE [ret |-> "fail", mem |-> m]

\* CHECK_EQ(out_grad.size(), 1); CHECK(in_data.size() == expected &&
\* in_grad.size() == expected); CHECK_EQ(req.size(), expected)
BackwardSizeChecks(p, og, ind, rq, ing) ==
  /\ Len(og) = 1
  /\ Len(ind) = Expected(p) /\ Len(ing) = Expected(p)
  /\ Len(rq) = Expected(p)

\* Assign(gwmat, req[kWeight], dot(grad.T(), data))
BackwardWeight(p, m, og, ind, rq, ing) ==
  LET data == FlatTo2D(ind[kData])
      grad == FlatTo2D(og[kOut])
      gwmat == get2(ing[kWeight])
  IN Assign(m, gwmat, rq[kWeight], dot(T(Mat(m, grad)), Mat(m, data)))

\* Mutant: the bias gradient is written with the weight slot's request, req[kWeight]
BackwardBias_WeightReq(p, m, og, ind, rq, ing) ==
  LET grad == FlatTo2D(og[kOut])
  IN IF p.no_bias = 0
     THEN Assign(m, get1(ing[kBias]), rq[kWeight], AsRow(sum_rows(Mat(m, grad))))
     ELSE m

\* if (no_bias == 0) Assign(gbias, req[kBias], sum_rows(grad))
BackwardBias(p, m, og, ind, rq, ing) ==
  LET grad == FlatTo2D(og[kOut])
  IN IF p.no_bias = 0
     THEN Assign(m, get1(ing[kBias]), rq[kBias], AsRow(sum_rows(Mat(m, grad))))
     ELSE m

\* Assign(gdata, req[kData], dot(grad, wmat))
BackwardData(p, m, og, ind, rq, ing) ==
  LET wmat == get2(ind[kWeight])
      grad == FlatTo2D(og[kOut])
      gdata == FlatTo2D(ing[kData])
  IN Assign(m, gdata, rq[kData], dot(Mat(m, grad), Mat(m, wmat)))

\* Mutant: the gradient of data is written first
BackwardBody_DataFirst(p, m, og, ind, outd, rq, ing) ==
  LET m1 == BackwardData(p, m, og, ind, rq, ing)
      m2 == BackwardWeight(p, m1, og, ind, rq, ing)
  IN BackwardBias(p, m2, og, ind, rq, ing)

\* Mutant: the output gradient is taken from out_data[kOut] instead of out_grad[kOut]
BackwardBody_ReadsOutData(p, m, og, ind, outd, rq, ing) ==
  LET g == IF Len(outd) >= 1 THEN outd ELSE og
      m1 == BackwardWeight(p, m, g, ind, rq, ing)
      m2 == BackwardBias(p, m1, g, ind, rq, ing)
  IN BackwardData(p, m2, g, ind, rq, ing)

\* The three assignments in the order of the source
BackwardBody(p, m, og, ind, outd, rq, ing) ==
  LET m1 == BackwardWeight(p, m, og, ind, rq, ing)
      m2 == BackwardBias(p, m1, og, ind, rq, ing)
  IN BackwardData(p, m2, og, ind, rq, ing)

\* Mutant: the write mode of the weight gradient is checked after the assignments
BackwardResult_LateModeCheck(p, m, og, ind, outd, rq, ing) ==
  IF ~BackwardSizeChecks(p, og, ind, rq, ing) THEN [ret |-> "fail", mem |-> m]
  ELSE IF ~(rq[kWeight] # kWriteInplace)
       THEN [ret |-> "fail", mem |-> BackwardBody(p, m, og, ind, outd, rq, ing)]
  ELSE [ret |-> "ok", mem |-> BackwardBody(p, m, og, ind, outd, rq, ing)]

BackwardResult(p, m, og, ind, outd, rq, ing) ==
  IF ~BackwardSizeChecks(p, og, ind, rq, ing) THEN [ret |-> "fail", mem |-> m]
  ELSE IF ~(rq[kWeight] # kWriteInplace) THEN [ret |-> "fail", mem |-> m]
  ELSE [ret |-> "ok", mem |-> BackwardBody(p, m, og, ind, outd, rq, ing)]

---------------------------------------------------------------------------
(* The inputs the operations are called with *)

Blob(d, s) == [dptr |-> d, shape |-> s]

Take(s, n) == SubSeq(s, 1, n)

Buffers == {"data", "weight", "bias", "out", "ograd", "gdata", "gweight", "gbias", "spare"}

NoMem == [d \in Buffers |-> << >>]

\* the contents a*1 + c, a*2 + c, ..., a*n + c
Fill(n, a, c) == [i \in 1..n |-> a * i + c]

\* the buffers of a layer with batch b, f input features and h hidden units
InitMem(b, f, h, seed) ==
  [d \in Buffers |->
     CASE d = "data" -> Fill(b * f, 1, seed)
       [] d = "weight" -> Fill(h * f, 2, -1 - seed)
       [] d = "bias" -> Fill(h, 10, seed)
       [] d = "out" -> Fill(b * h, seed, 7)
       [] d = "ograd" -> Fill(b * h, 3, seed - 4)
       [] d = "gdata" -> Fill(b * f, 5 * seed, 1)
       [] d = "gweight" -> Fill(h * f, 7 * seed, 2)
       [] d = "gbias" -> Fill(h, 11 * seed, 3)
       [] d = "spare" -> <<0>>]

AllInData(b, f, h) ==
  <<Blob("data", <<b, 1, 1, f>>), Blob("weight", <<h, f>>), Blob("bias", <<h>>),
    Blob("spare", <<1>>)>>

AllOutData(b, h) == <<Blob("out", <<b, 1, 1, h>>), Blob("spare", <<1>>)>>

AllOutGrad(b, h) == <<Blob("ograd", <<b, 1, 1, h>>), Blob("spare", <<1>>)>>

OwnInGrad(b, f, h) ==
  <<Blob("gdata", <<b, 1, 1, f>>), Blob("gweight", <<h, f>>), Blob("gbias", <<h>>),
    Blob("spare", <<1>>)>>

\* The memory planner takes up the in-place option: for each pair (g, d) that
\* BackwardInplaceOption returns, gradient slot g is given input slot d's buffer.
InplaceInGrad(b, f, h) ==
  LET ids == [i \in 1..4 |-> i]
      pairs == BackwardInplaceOption(<<1>>, ids, <<1>>, ids)
  IN [i \in 1..4 |->
        IF \E k \in 1..Len(pairs) : pairs[k][1] = i
        THEN LET k == CHOOSE k \in 1..Len(pairs) : pairs[k][1] = i
             IN Blob(AllInData(b, f, h)[pairs[k][2]].dptr, OwnInGrad(b, f, h)[i].shape)
        ELSE OwnInGrad(b, f, h)[i]]

\* How a call is put together: the slot counts, the write modes, and whether
\* the in-place option is taken up
WellFormedCalls(p) ==
  [nIn : {Expected(p)}, nOut : {1}, nOg : {1}, nIg : {Expected(p)},
   rq : [1..Expected(p) -> OpReqType], inplace : BOOLEAN]

Uniform(n, r) == [i \in 1..n |-> r]

\* one slot count off by one
MiscountedCalls(p) ==
  LET E == Expected(p)
  IN UNION {
       [nIn : {E + d}, nOut : {1}, nOg : {1}, nIg : {E},
        rq : {Uniform(E, r) : r \in OpReqType}, inplace : {FALSE}]
       \cup [nIn : {E}, nOut : {1 + d}, nOg : {1}, nIg : {E},
        rq : {Uniform(E, r) : r \in OpReqType}, inplace : {FALSE}]
       \cup [nIn : {E}, nOut : {1}, nOg : {1 + d}, nIg : {E},
        rq : {Uniform(E, r) : r \in OpReqType}, inplace : {FALSE}]
       \cup [nIn : {E}, nOut : {1}, nOg : {1}, nIg : {E + d},
        rq : {Uniform(E, r) : r \in OpReqType}, inplace : {FALSE}]
       \cup [nIn : {E}, nOut : {1}, nOg : {1}, nIg : {E},
        rq : {Uniform(E + d, r) : r \in OpReqType}, inplace : {FALSE}]
       : d \in {-1, 1}}
     \cup [nIn : {E}, nOut : {1}, nOg : {1}, nIg : {E}, rq : {<< >>}, inplace : {FALSE}]

DataShapes == UNION {[1..r -> 0..MaxExtent] : r \in 0..4} \cup {<<1, 1, 1, 1, 1>>}

WeightShapes == UNION {[1..r -> 1..MaxExtent] : r \in 0..2}

BiasShapes == UNION {[1..r -> 1..MaxExtent] : r \in 0..1} \cup {<<1, 1>>}

StaleOutShapes == {<< >>, <<(<<3>>)>>, <<(<<3>>), <<3, 3>>>>}

Snapshot == [in_shape |-> in_shape, out_shape |-> out_shape, mem |-> mem, op |-> op, ret |-> ret]

---------------------------------------------------------------------------
(* The symbol: shape inference and argument listing on arbitrary shape lists *)

Init ==
  /\ param_ \in [num_hidden : -1..MaxExtent, no_bias : {0, 1}]
  /\ \E d \in DataShapes, w \in WeightShapes, b \in BiasShapes, n \in 1..3 :
       in_shape = Take(<<d, w, b>>, n)
  /\ out_shape \in StaleOutShapes
  /\ mem = NoMem
  /\ in_data = << >> /\ out_data = << >> /\ out_grad = << >> /\ in_grad = << >>
  /\ req = << >>
  /\ args = << >>
  /\ op = "none" /\ ret = "none"
  /\ pre = Snapshot
  /\ calls = 0

InferShape ==
  LET r == InferShapeResult(param_, in_shape, out_shape)
  IN /\ in_shape' = r.in_shape
     /\ out_shape' = r.out_shape
     /\ op' = "InferShape"
     /\ ret' = r.ret
     /\ pre' = Snapshot
     /\ UNCHANGED <<param_, mem, in_data, out_data, out_grad, in_grad, req, args, calls>>

CallListArguments ==
  /\ args' = ListArguments(param_)
  /\ op' = "ListArguments"
  /\ ret' = "ok"
  /\ pre' = Snapshot
  /\ UNCHANGED <<param_, in_shape, out_shape, mem, in_data, out_data, out_grad, in_grad,
                 req, calls>>

Next == InferShape \/ CallListArguments

Spec == Init /\ [][Next]_vars

---------------------------------------------------------------------------
(* The operator bound from the symbol, called on the buffers of a layer *)

InitOp ==
  /\ \E h \in 1..MaxHidden, nb \in {0, 1} : param_ = [num_hidden |-> h, no_bias |-> nb]
  /\ \E b \in 1..MaxBatch, f \in 1..MaxFeat, seed \in 0..MaxSeed,
        c \in WellFormedCalls(param_) \cup MiscountedCalls(param_) :
       /\ mem = InitMem(b, f, param_.num_hidden, seed)
       /\ in_data = Take(AllInData(b, f, param_.num_hidden), c.nIn)
       /\ out_data = Take(AllOutData(b, param_.num_hidden), c.nOut)
       /\ out_grad = Take(AllOutGrad(b, param_.num_hidden), c.nOg)
       /\ in_grad = Take(IF c.inplace THEN InplaceInGrad(b, f, param_.num_hidden)
                         ELSE OwnInGrad(b, f, param_.num_hidden), c.nIg)
       /\ req = c.rq
  /\ in_shape = [i \in 1..Len(in_data) |-> in_data[i].shape]
  /\ out_shape = << >>
  /\ args = << >>
  /\ op = "none" /\ ret = "none"
  /\ pre = Snapshot
  /\ calls = 0

Forward ==
  /\ calls < MaxCalls
  /\ \E wild \in OpReqType :
       LET r == ForwardResult(param_, mem, in_data, req, out_data, wild)
       IN /\ mem' = r.mem
          /\ ret' = r.ret
  /\ op' = "Forward"
  /\ pre' = Snapshot
  /\ calls' = calls + 1
  /\ UNCHANGED <<param_, in_shape, out_shape, in_data, out_data, out_grad, in_grad, req, args>>

Backward ==
  /\ calls < MaxCalls
  /\ LET r == BackwardResult(param_, mem, out_grad, in_data, out_data, req, in_grad)
     IN /\ mem' = r.mem
        /\ ret' = r.ret
  /\ op' = "Backward"
  /\ pre' = Snapshot
  /\ calls' = calls + 1
  /\ UNCHANGED <<param_, in_shape, out_shape, in_data, out_data, out_grad, in_grad, req, args>>

NextOp == Forward \/ Backward

SpecOp == InitOp /\ [][NextOp]_vars

---------------------------------------------------------------------------
(* The symbol and the operator bound from it, on the same slot lists: the  *)
(* shapes InferShape is given are those of the input blobs                 *)

InitLayout ==
  /\ InitOp
  /\ mem = InitMem(1, 1, param_.num_hidden, 0)

NextLayout == Forward \/ Backward \/ InferShape \/ CallListArguments

SpecLayout == InitLayout /\ [][NextLayout]_vars

---------------------------------------------------------------------------
(* Properties of InferShape, checked under Spec *)

\* the data shape is [b,1,1,f]
IsBatch11Feat(s) == Len(s) = 4 /\ s[2] = 1 /\ s[3] = 1

\* C1: for hiddenUnits > 0 and a data shape [b,1,1,f], a successful InferShape
\* leaves the weight shape [hiddenUnits, f], the bias shape [hiddenUnits] when
\* there is a bias, and exactly one output shape, [b,1,1,hiddenUnits], whatever
\* the output shape list held before the call.
C1_InferredShapes ==
  (op = "InferShape" /\ ret = "true" /\ param_.num_hidden > 0
     /\ IsBatch11Feat(pre.in_shape[kData]))
  => /\ in_shape[kWeight] = <<param_.num_hidden, pre.in_shape[kData][4]>>
     /\ (param_.no_bias = 0 => in_shape[kBias] = <<param_.num_hidden>>)
     /\ out_shape = <<(<<pre.in_shape[kData][1], 1, 1, param_.num_hidden>>)>>

C1_Witness ==
  /\ op = "InferShape" /\ ret = "true" /\ param_.no_bias = 0
  /\ IsBatch11Feat(pre.in_shape[kData])
  /\ pre.in_shape[kWeight] = << >> /\ pre.in_shape[kBias] = << >>
  /\ Len(pre.out_shape) = 2
  /\ pre.in_shape[kData][4] # param_.num_hidden

HasUnknownExtent(s) == \E i \in 1..Len(s) : s[i] = 0

\* C2 as stated: InferShape fails for any data shape whose rank is not 4 or
\* that has an unknown (zero) extent.
C2_FailsOnUnknownExtent ==
  (op = "InferShape"
     /\ (Len(pre.in_shape[kData]) # 4 \/ HasUnknownExtent(pre.in_shape[kData])))
  => ret = "fail"

\* C2 amended: InferShape fails for any data shape whose rank is not 4 (the
\* unknown shape, of rank 0, included); the extents of a rank-4 shape are not
\* looked at.
C2_FailsOnRankNot4 ==
  (op = "InferShape" /\ Len(pre.in_shape[kData]) # 4) => ret = "fail"

C2_Witness ==
  /\ op = "InferShape" /\ ret = "fail"
  /\ Len(pre.in_shape) = Expected(param_) /\ param_.num_hidden > 0
  /\ Len(pre.in_shape[kData]) = 5
  /\ pre.in_shape[kWeight] = << >>

\* C8: InferShape never changes an input shape that was known when it was
\* called, and it is idempotent: called again on the lists a successful call
\* left, it succeeds and leaves every input shape and the output shape as
\* they were.
C8_Idempotent ==
  op = "InferShape"
  => /\ \A i \in 1..Len(pre.in_shape) :
          pre.in_shape[i] # << >> => in_shape[i] = pre.in_shape[i]
     /\ Len(in_shape) = Len(pre.in_shape)
     /\ (pre.op = "InferShape" /\ pre.ret = "true")
          => (ret = "true" /\ in_shape = pre.in_shape /\ out_shape = pre.out_shape)

C8_Witness ==
  /\ op = "InferShape" /\ ret = "true"
  /\ pre.op = "InferShape" /\ pre.ret = "true"
  /\ in_shape[kData][4] # param_.num_hidden

ConflictingWeight ==
  /\ Len(pre.in_shape) >= kWeight
  /\ Len(pre.in_shape[kData]) = 4
  /\ pre.in_shape[kWeight] # << >>
  /\ pre.in_shape[kWeight] # <<param_.num_hidden, pre.in_shape[kData][4]>>

ConflictingBias ==
  /\ param_.no_bias = 0
  /\ Len(pre.in_shape) >= kBias
  /\ pre.in_shape[kBias] # << >>
  /\ pre.in_shape[kBias] # <<param_.num_hidden>>

\* C9: given a known weight shape other than [hiddenUnits, f], or with a bias
\* a known bias shape other than [hiddenUnits], or hiddenUnits <= 0,
\* InferShape fails, and the supplied shapes are left as supplied.
C9_ConflictFails ==
  (op = "InferShape" /\ (ConflictingWeight \/ ConflictingBias \/ param_.num_hidden <= 0))
  => /\ ret = "fail"
     /\ (Len(pre.in_shape) >= kWeight /\ pre.in_shape[kWeight] # << >>
           => in_shape[kWeight] = pre.in_shape[kWeight])
     /\ (Len(pre.in_shape) >= kBias /\ pre.in_shape[kBias] # << >>
           => in_shape[kBias] = pre.in_shape[kBias])

C9_Witness ==
  /\ op = "InferShape" /\ ret = "fail"
  /\ ConflictingWeight /\ ~ConflictingBias
  /\ Len(pre.in_shape) = Expected(param_) /\ param_.num_hidden > 0
  /\ pre.in_shape[kWeight] = <<pre.in_shape[kData][4], param_.num_hidden>>

---------------------------------------------------------------------------
(* Properties of Forward and Backward, checked under SpecOp *)

\* batch size, input features and hidden units of the call's buffers
Batch == in_data[kData].shape[1]
Feat == in_data[kData].shape[4]
Hidden == param_.num_hidden

\* element (i, j) of the cols-wide matrix stored flat in s
At(s, cols, i, j) == s[(i - 1) * cols + j]

WellFormedForward ==
  /\ Len(in_data) = (IF param_.no_bias = 0 THEN 3 ELSE 2)
  /\ Len(out_data) = 1
  /\ Len(req) >= 1 /\ req[kOut] = kWriteTo

\* C5: after a well-formed Forward call with write mode Overwrite, the output
\* buffer holds data . weight^T, plus the bias on every row when there is a
\* bias, whatever it held before; no other buffer has changed.
C5_ForwardOutput ==
  (op = "Forward" /\ WellFormedForward)
  => /\ ret = "ok"
     /\ \A i \in 1..Batch, j \in 1..Hidden :
          LET prod(k) == At(pre.mem["data"], Feat, i, k) * At(pre.mem["weight"], Feat, j, k)
          IN At(mem["out"], Hidden, i, j)
               = SumTo([k \in 1..Feat |-> prod(k)], Feat) + (IF param_.no_bias = 0 THEN pre.mem["bias"][j] ELSE 0)
     /\ Len(mem["out"]) = Batch * Hidden
     /\ \A d \in Buffers \ {"out"} : mem[d] = pre.mem[d]

C5_Witness ==
  /\ op = "Forward" /\ WellFormedForward /\ ret = "ok"
  /\ param_.no_bias = 0
  /\ Batch >= 2 /\ Feat >= 2 /\ Hidden >= 2
  /\ \A k \in 1..Len(pre.mem["out"]) : pre.mem["out"][k] # 0 /\ pre.mem["out"][k] # mem["out"][k]

\* what a slot written with request r holds afterwards: the value under
\* Overwrite, the previous contents plus the value under AccumulateAdd
WrittenPer(r, now, before, value) ==
  /\ r = kWriteTo => now = value
  /\ r = kAddTo => now = before + value

GradPtr(slot) == in_grad[slot].dptr

\* C6: after a well-formed Backward call each input-gradient slot is written
\* per its own write mode with gradWeight = outputGradient^T . data, gradBias
\* = the column sums of outputGradient (with a bias only) and gradData =
\* outputGradient . weight.
C6_BackwardGradients ==
  (op = "Backward" /\ ret = "ok")
  => /\ \A i \in 1..Hidden, j \in 1..Feat :
          LET term(k) == At(pre.mem["ograd"], Hidden, k, i) * At(pre.mem["data"], Feat, k, j)
          IN WrittenPer(req[kWeight], At(mem[GradPtr(kWeight)], Feat, i, j),
                        At(pre.mem[GradPtr(kWeight)], Feat, i, j), SumTo([k \in 1..Batch |-> term(k)], Batch))
     /\ param_.no_bias = 0 =>
          \A j \in 1..Hidden :
            LET term(k) == At(pre.mem["ograd"], Hidden, k, j)
            IN WrittenPer(req[kBias], mem[GradPtr(kBias)][j],
                          pre.mem[GradPtr(kBias)][j], SumTo([k \in 1..Batch |-> term(k)], Batch))
     /\ \A i \in 1..Batch, j \in 1..Feat :
          LET term(k) == At(pre.mem["ograd"], Hidden, i, k) * At(pre.mem["weight"], Feat, k, j)
          IN WrittenPer(req[kData], At(mem[GradPtr(kData)], Feat, i, j),
                        At(pre.mem[GradPtr(kData)], Feat, i, j), SumTo([k \in 1..Hidden |-> term(k)], Hidden))

C6_Witness ==
  /\ op = "Backward" /\ ret = "ok"
  /\ param_.no_bias = 0
  /\ req = <<kAddTo, kWriteTo, kAddTo>>
  /\ Batch >= 2 /\ Feat >= 2 /\ Hidden >= 2
  /\ \A k \in 1..Len(pre.mem["gbias"]) : pre.mem["gbias"][k] # 0
  /\ mem["gbias"] # pre.mem["gbias"] /\ mem["gweight"] # pre.mem["gweight"]

\* the data-gradient slot has been given the data buffer
DataGradInPlace ==
  /\ Len(in_grad) >= kData /\ Len(in_data) >= kData
  /\ \E k \in 1..Len(BackwardInplaceOption(<<0>>, <<1, 2, 3>>, <<0>>, <<4, 5, 6>>)) :
       BackwardInplaceOption(<<0>>, <<1, 2, 3>>, <<0>>, <<4, 5, 6>>)[k] = <<3 + kData, kData>>
  /\ in_grad[kData].dptr = in_data[kData].dptr

\* the same in_grad with a buffer of its own in the data-gradient slot
SeparateInGrad == [in_grad EXCEPT ![kData].dptr = "gdata"]

\* C4: when the data-gradient buffer is the data buffer, as
\* BackwardInplaceOption allows, Backward leaves in gradWeight and gradBias
\* what it leaves there when the two buffers are distinct, and in the shared
\* buffer what it leaves in the separate gradData buffer: data is not read
\* after gradData is written.
C4_InplaceSameGradients ==
  (op = "Backward" /\ ret = "ok" /\ DataGradInPlace)
  => LET apart == BackwardBody(param_, [pre.mem EXCEPT !["gdata"] = pre.mem["data"]],
                               out_grad, in_data, out_data, req, SeparateInGrad)
     IN /\ mem["gweight"] = apart["gweight"]
        /\ mem["gbias"] = apart["gbias"]
        /\ mem["data"] = apart["gdata"]

C4_Witness ==
  /\ op = "Backward" /\ ret = "ok" /\ DataGradInPlace
  /\ param_.no_bias = 0
  /\ Batch >= 2 /\ Feat >= 2 /\ Hidden >= 2
  /\ \A k \in 1..Len(mem["data"]) : mem["data"][k] # pre.mem["data"][k]
  /\ mem["gweight"] # pre.mem["gweight"]

Ptrs(blobs) == {blobs[i].dptr : i \in 1..Len(blobs)}

PtrSeq(blobs) == [i \in 1..Len(blobs) |-> blobs[i].dptr]

\* the buffers DeclareBackwardDependency names for the call's slot lists
Declared ==
  LET deps == DeclareBackwardDependency(PtrSeq(out_grad), PtrSeq(in_data), PtrSeq(out_data))
  IN {deps[i] : i \in 1..Len(deps)}

\* the buffers it could have named and did not, the gradient buffers apart
Undeclared == (Ptrs(out_grad) \cup Ptrs(in_data) \cup Ptrs(out_data) \cup {"out", "bias"})
                \ (Declared \cup Ptrs(in_grad))

\* the memory m with other contents in the buffers of the set ptrs
Scrambled(m, ptrs) ==
  [d \in Buffers |-> IF d \in ptrs THEN [k \in 1..Len(m[d]) |-> 100 - 3 * m[d][k]] ELSE m[d]]

\* C7: of the buffers handed to it, Backward reads only those that
\* DeclareBackwardDependency returns, the output gradient, data and weight: a
\* call that differs only in the contents of the others (the forward output,
\* the bias) leaves the same gradients; and it writes only the buffers of the
\* input-gradient slots.
C7_BackwardDependency ==
  (op = "Backward" /\ ret = "ok")
  => /\ Declared = {out_grad[kOut].dptr, in_data[kData].dptr, in_data[kWeight].dptr}
     /\ \A d \in Buffers \ Ptrs(in_grad) : mem[d] = pre.mem[d]
     /\ \A d \in Ptrs(in_grad) :
          mem[d] = BackwardBody(param_, Scrambled(pre.mem, Undeclared), out_grad, in_data,
                                out_data, req, in_grad)[d]

C7_Witness ==
  /\ op = "Backward" /\ ret = "ok"
  /\ param_.no_bias = 0 /\ Len(out_data) = 1
  /\ {"out", "bias"} \subseteq Undeclared
  /\ Scrambled(pre.mem, Undeclared)["out"] # pre.mem["out"]
  /\ Scrambled(pre.mem, Undeclared)["bias"] # pre.mem["bias"]
  /\ mem["gdata"] # pre.mem["gdata"]
  /\ Batch >= 2 /\ Feat >= 2 /\ Hidden >= 2
  \* and each buffer it declares is read: other contents there, other gradients
  /\ \A d \in Declared :
       \E g \in Ptrs(in_grad) :
         mem[g] # BackwardBody(param_, Scrambled(pre.mem, {d}), out_grad, in_data,
                               out_data, req, in_grad)[g]

ForwardViolation ==
  \/ Len(in_data) # (IF param_.no_bias = 0 THEN 3 ELSE 2)
  \/ Len(out_data) # 1
  \/ (Len(req) >= 1 /\ req[kOut] # kWriteTo)

BackwardViolation ==
  \/ Len(out_grad) # 1
  \/ Len(in_data) # (IF param_.no_bias = 0 THEN 3 ELSE 2)
  \/ Len(in_grad) # (IF param_.no_bias = 0 THEN 3 ELSE 2)
  \/ Len(req) # (IF param_.no_bias = 0 THEN 3 ELSE 2)
  \/ (Len(req) >= kWeight /\ req[kWeight] = kWriteInplace)

\* C3: a Forward call with a wrong number of input or output slots or an
\* output write mode other than Overwrite, and a Backward call with a wrong
\* number of output-gradient, input, input-gradient or write-mode slots or
\* with WriteInPlace on the weight-gradient slot, fails and leaves every
\* buffer as it was.
C3_ViolationsWriteNothing ==
  /\ (op = "Forward" /\ ForwardViolation) => (ret = "fail" /\ mem = pre.mem)
  /\ (op = "Backward" /\ BackwardViolation) => (ret = "fail" /\ mem = pre.mem)

C3_Witness ==
  /\ op = "Backward" /\ ret = "fail"
  /\ Len(out_grad) = 1 /\ Len(in_data) = 3 /\ Len(in_grad) = 3 /\ Len(req) = 3
  /\ req = <<kAddTo, kWriteInplace, kWriteTo>>
  /\ pre.op = "Forward" /\ pre.ret = "fail"

---------------------------------------------------------------------------
(* The argument layout, checked under SpecLayout *)

BiasPtrs == {"bias", "gbias"}

\* C10: the layout is [data, weight, bias?], with bias iff no_bias is 0, in
\* every operation: ListArguments returns these names in this order, and
\* their number is the number of input shapes InferShape accepts and the
\* number of input and input-gradient slots Forward and Backward accept;
\* without a bias Forward and Backward neither read nor write a third slot.
C10_SameLayout ==
  args # << >>
  => /\ args = Take(<<"data", "weight", "bias">>, IF param_.no_bias = 0 THEN 3 ELSE 2)
     /\ op = "InferShape" => (ret = "true" <=> Len(pre.in_shape) = Len(args))
     /\ (op = "Forward" /\ ret = "ok") => Len(in_data) = Len(args)
     /\ (op = "Forward" /\ Len(in_data) # Len(args)) => ret = "fail"
     /\ (op = "Backward" /\ ret = "ok") => (Len(in_data) = Len(args) /\ Len(in_grad) = Len(args))
     /\ (op = "Backward" /\ (Len(in_data) # Len(args) \/ Len(in_grad) # Len(args)))
          => ret = "fail"
     /\ (param_.no_bias # 0 /\ op \in {"Forward", "Backward"})
          => /\ \A d \in BiasPtrs : mem[d] = pre.mem[d]
             /\ (op = "Forward" /\ ret = "ok") =>
                  mem = [ForwardBody(param_, Scrambled(pre.mem, BiasPtrs), in_data, out_data)
                           EXCEPT !["bias"] = mem["bias"], !["gbias"] = mem["gbias"]]
             /\ (op = "Backward" /\ ret = "ok") =>
                  mem = [BackwardBody(param_, Scrambled(pre.mem, BiasPtrs), out_grad, in_data,
                                      out_data, req, in_grad)
                           EXCEPT !["bias"] = mem["bias"], !["gbias"] = mem["gbias"]]

C10_Witness ==
  /\ Len(args) = 2 /\ param_.no_bias # 0
  /\ op = "Backward" /\ ret = "ok" /\ pre.op = "Forward" /\ pre.ret = "ok"
  /\ in_shape = <<in_data[kData].shape, in_data[kWeight].shape>> /\ Len(out_shape) = 1

====
